---- MODULE Spec2Model ----
(***************************************************************************)
(* Crop / pad parameter sampling of                                        *)
(* albumentations/augmentations/crops/transforms.py.                       *)
(*                                                                         *)
(* A strategy object is constructed once (its configuration is the record  *)
(* `strategy`) and then sampled many times; every sampling call draws its  *)
(* random numbers with \E and leaves the descriptor it returns in `desc`.  *)
(* Fractions (percent, scale, ratio, border fractions) are rationals       *)
(* <<numerator, denominator>> or numerators over a fixed denominator.      *)
(***************************************************************************)
EXTENDS Integers, Sequences, FiniteSets, TLC

VARIABLES
    strategy,    \* the constructed transform: its kind and its attributes
    pc,          \* "init" | "constructed" | "failed" | "sampling" | "sampled" | "applied" | "error"
    err,         \* the exception raised by the last call, "" when none
    frame,       \* params["image"].shape[:2] of the sampling call, <<rows, cols>>
    new_params,  \* CropAndPad: the signed per-side amounts <<top, right, bottom, left>>
    regain,      \* CropAndPad: the first split regain1/regain2 computed per axis
    attempt,     \* RandomResizedCrop: completed iterations of `for _ in range(10)`
    cand,        \* RandomResizedCrop: <<width, height>> computed by the last iteration
    desc,        \* the dictionary returned by the sampling call
    ctor_args,   \* the arguments of the constructor call
    targets,     \* the other targets of the call: mask(s), bboxes, cropping_bbox, keypoint
    draw,        \* the random numbers drawn by the call that the descriptor does not show
    applied,     \* what apply / apply_to_keypoint made of the descriptor
    calls        \* CropAndPad: the sampling calls made on the strategy so far

vars == <<strategy, pc, err, frame, new_params, regain, attempt, cand, desc, ctor_args,
          targets, draw, applied, calls>>

(***************************************************************************)
(* Bounds of the model.                                                    *)
(***************************************************************************)
MaxDim == 3
MaxPx == 2
PercentDen == 4
MaxPercentNum == 2
FracDen == 4
ScaleDen == 2
RatioDen == 2
MaxRatioNum == 4
MaxCalls == 2

\* Frame sizes <<rows, cols>>: all small ones and the 10 x 10 frame of the
\* documented examples.
Frames == {<<r, c>> : r \in 1..MaxDim, c \in 1..MaxDim} \cup {<<10, 10>>}

\* Pixel amounts: negative crops, positive pads; -6 is the documented example.
PxValues == ((-MaxPx)..MaxPx) \cup {-6}

\* Percent numerators over PercentDen: from -(PercentDen + 2)/PercentDen up.
PercentNums == (-(PercentDen + MaxPercentNum))..MaxPercentNum

(***************************************************************************)
(* Python arithmetic.                                                      *)
(***************************************************************************)
None == <<>>

NoneCfg == [kind |-> "None", val |-> <<>>]

NoStrategy == [kind |-> "none"]

Abs(x) == IF x < 0 THEN -x ELSE x

Max(a, b) == IF a >= b THEN a ELSE b

Min(a, b) == IF a <= b THEN a ELSE b

\* int(n / d) for d > 0: truncation toward zero.
PyInt(n, d) == IF n >= 0 THEN n \div d ELSE -((-n) \div d)

\* random.randrange(a, b): the integers of [a, b); empty (ValueError) when a >= b.
randrange(a, b) == a..(b - 1)

\* random.uniform(a, b) = a + (b - a) * random(): every grid value between a and b.
uniform(a, b) == Min(a, b)..Max(a, b)

\* random.randint(a, b): the integers of [a, b]; empty (ValueError) when a > b.
randint(a, b) == a..b

\* A slip: the quotient is truncated, not rounded.
RoundDiv_trunc(n, d) == n \div d

\* int(round(n / d)) for n >= 0, d > 0: Python rounds a half to the even integer.
RoundDiv(n, d) ==
    LET q == n \div d
        r == n % d
    IN  IF 2 * r < d THEN q
        ELSE IF 2 * r > d THEN q + 1
        ELSE IF q % 2 = 0 THEN q ELSE q + 1

\* int(round(math.sqrt(n / d))) for n >= 0, d > 0.
RoundSqrt(n, d) ==
    LET k == CHOOSE k \in 0..((n \div d) + 1) : k * k * d <= n /\ (k + 1) * (k + 1) * d > n
        half == (2 * k + 1) * (2 * k + 1) * d
    IN  IF 4 * n < half THEN k
        ELSE IF 4 * n > half THEN k + 1
        ELSE IF k % 2 = 0 THEN k ELSE k + 1

(***************************************************************************)
(* CropAndPad                                                              *)
(***************************************************************************)
\* The px argument: an int, a pair, four ints, or four pairs.
PxPairs == {<<-MaxPx, 0>>, <<0, MaxPx>>, <<-1, -1>>, <<-1, 1>>}

PxConfigs ==
    {[kind |-> "int", val |-> <<v>>] : v \in PxValues}
    \cup {[kind |-> "pair", val |-> <<a, b>>] : a \in (-MaxPx)..MaxPx, b \in (-MaxPx)..MaxPx}
    \cup {[kind |-> "four_int", val |-> <<t, r, b, l>>] :
            t \in PxValues, r \in PxValues, b \in PxValues, l \in PxValues}
    \cup {[kind |-> "four_pair", val |-> <<p, q, p, q>>] : p \in PxPairs, q \in PxPairs}

\* The percent argument: a float, a pair, four floats, or four pairs.
PercentPairs == {<<-(PercentDen + MaxPercentNum), 0>>, <<MaxPercentNum, -1>>}

PercentFloatConfigs == {[kind |-> "float", val |-> <<v>>] : v \in PercentNums}

PercentConfigs ==
    PercentFloatConfigs
    \cup {[kind |-> "pair", val |-> p] : p \in PercentPairs}
    \cup {[kind |-> "four_float", val |-> <<t, r, t, l>>] :
            t \in PercentNums, r \in {-PercentDen, 0}, l \in {-1, 1}}
    \cup {[kind |-> "four_pair", val |-> <<p, q, p, q>>] : p \in PercentPairs, q \in PercentPairs}

IsNone(x) == x.kind = "None"

\* A slip: the check that px and percent are not both set is missing.
CropAndPad_init_unchecked(px, percent, sample_independently) ==
    IF IsNone(px) /\ IsNone(percent)
    THEN [ok |-> FALSE, err |-> "ValueError: px and percent are empty!", self |-> NoStrategy]
    ELSE [ok |-> TRUE, err |-> "",
          self |-> [kind |-> "CropAndPad", px |-> px, percent |-> percent,
                    pad_cval |-> 0, pad_cval_mask |-> 0,
                    sample_independently |-> sample_independently]]

\* CropAndPad.__init__
CropAndPad_init(px, percent, sample_independently) ==
    IF IsNone(px) /\ IsNone(percent)
    THEN [ok |-> FALSE, err |-> "ValueError: px and percent are empty!", self |-> NoStrategy]
    ELSE IF ~IsNone(px) /\ ~IsNone(percent)
    THEN [ok |-> FALSE, err |-> "ValueError: Only px or percent may be set!", self |-> NoStrategy]
    ELSE [ok |-> TRUE, err |-> "",
          self |-> [kind |-> "CropAndPad", px |-> px, percent |-> percent,
                    pad_cval |-> 0, pad_cval_mask |-> 0,
                    sample_independently |-> sample_independently]]

\* A slip: regain is abs(max_val), without the extra pixel.
RegainSplit_short(max_val) ==
    LET regain_ == Abs(max_val)
        half == regain_ \div 2
    IN  <<IF half + half < regain_ THEN half + 1 ELSE half, half>>

\* CropAndPad.__prevent_zero, lines 866-870: the first split of regain.
RegainSplit(max_val) ==
    LET regain_ == Abs(max_val) + 1
        half == regain_ \div 2
    IN  <<IF half + half < regain_ THEN half + 1 ELSE half, half>>

\* CropAndPad.__prevent_zero(val1, val2, max_val)
__prevent_zero(val1, val2, max_val) ==
    LET split == RegainSplit(max_val)
        r1 == split[1]
        r2 == split[2]
        regain1 == IF r1 > val1 THEN val1
                   ELSE IF r2 > val2 THEN r1 + (r2 - val2) ELSE r1
        regain2 == IF r1 > val1 THEN r2 + (r1 - val1)
                   ELSE IF r2 > val2 THEN val2 ELSE r2
    IN  <<val1 - regain1, val2 - regain2>>

\* CropAndPad._prevent_zero(crop_params, height, width)
_prevent_zero(crop_params, height, width) ==
    LET top == crop_params[1]
        right == crop_params[2]
        bottom == crop_params[3]
        left == crop_params[4]
        remaining_height == height - (top + bottom)
        remaining_width == width - (left + right)
        tb == IF remaining_height < 1 THEN __prevent_zero(top, bottom, height)
              ELSE <<top, bottom>>
        lr == IF remaining_width < 1 THEN __prevent_zero(left, right, width)
              ELSE <<left, right>>
    IN  <<Max(tb[1], 0), Max(lr[2], 0), Max(tb[2], 0), Max(lr[1], 0)>>

\* The value of regain1, regain2 after line 870 on each axis that is rebalanced.
RegainLocals(crop_params, height, width) ==
    [h |-> IF height - (crop_params[1] + crop_params[3]) < 1 THEN RegainSplit(height) ELSE None,
     w |-> IF width - (crop_params[4] + crop_params[2]) < 1 THEN RegainSplit(width) ELSE None]

\* A slip: the magnitude of every amount is padded.
PadOf_abs(params) == [i \in 1..4 |-> Abs(params[i])]

\* pad_params = [max(i, 0) for i in new_params]
PadOf(params) == [i \in 1..4 |-> Max(params[i], 0)]

\* A slip: the amounts are read as <<top, left, bottom, right>>.
CropOf_swapped(params) ==
    <<-Min(params[1], 0), -Min(params[4], 0), -Min(params[3], 0), -Min(params[2], 0)>>

\* [-min(i, 0) for i in new_params]
CropOf(params) == [i \in 1..4 |-> -Min(params[i], 0)]

\* A slip: the rectangle is kept when only one of the two sizes is unchanged.
ElideFullFrame_or(crop, rows0, cols0, height, width) ==
    IF cols0 = width \/ rows0 = height THEN <<>> ELSE crop

\* Lines 922-923: a crop rectangle that is the whole frame becomes [].
ElideFullFrame(crop, rows0, cols0, height, width) ==
    IF cols0 = width /\ rows0 = height THEN <<>> ELSE crop

\* CropAndPad.get_params_dependent_on_targets, from line 914 on.
CropAndPad_descriptor(self, params, height, width) ==
    LET pad1 == PadOf(params)
        crop1 == _prevent_zero(CropOf(params), height, width)
        crop2 == <<crop1[4], crop1[1], width - crop1[2], height - crop1[3]>>
        rows0 == crop2[4] - crop2[2]
        cols0 == crop2[3] - crop2[1]
        crop3 == ElideFullFrame(crop2, rows0, cols0, height, width)
        pad2 == <<pad1[1], pad1[3], pad1[4], pad1[2]>>
        anypad == \E i \in 1..4 : pad2[i] # 0
        pad3 == IF anypad THEN pad2 ELSE <<>>
    IN  [crop_params |-> IF crop3 = <<>> THEN None ELSE crop3,
         pad_params |-> IF pad3 = <<>> THEN None ELSE pad3,
         pad_value |-> self.pad_cval,
         pad_value_mask |-> self.pad_cval_mask,
         result_rows |-> IF anypad THEN rows0 + pad1[1] + pad1[3] ELSE rows0,
         result_cols |-> IF anypad THEN cols0 + pad1[4] + pad1[2] ELSE cols0]

\* CropAndPad._get_px_params: the lists it can return; {} when randrange raises.
_get_px_params(self) ==
    LET px == self.px.val IN
    CASE self.px.kind = "int" -> {<<px[1], px[1], px[1], px[1]>>}
      [] self.px.kind = "pair" ->
            IF self.sample_independently
            THEN {<<t, r, b, l>> : t \in randrange(px[1], px[2]), r \in randrange(px[1], px[2]),
                                   b \in randrange(px[1], px[2]), l \in randrange(px[1], px[2])}
            ELSE {<<v, v, v, v>> : v \in randrange(px[1], px[2])}
      [] self.px.kind = "four_int" -> {px}
      [] self.px.kind = "four_pair" ->
            {<<t, r, b, l>> : t \in randrange(px[1][1], px[1][2]), r \in randrange(px[2][1], px[2][2]),
                               b \in randrange(px[3][1], px[3][2]), l \in randrange(px[4][1], px[4][2])}

\* CropAndPad._get_percent_params: numerators over PercentDen.
_get_percent_params(self) ==
    LET pc_ == self.percent.val IN
    CASE self.percent.kind = "float" -> {<<pc_[1], pc_[1], pc_[1], pc_[1]>>}
      [] self.percent.kind = "pair" ->
            IF self.sample_independently
            THEN {<<t, r, b, l>> : t \in uniform(pc_[1], pc_[2]), r \in uniform(pc_[1], pc_[2]),
                                   b \in uniform(pc_[1], pc_[2]), l \in uniform(pc_[1], pc_[2])}
            ELSE {<<v, v, v, v>> : v \in uniform(pc_[1], pc_[2])}
      [] self.percent.kind = "four_float" -> {pc_}
      [] self.percent.kind = "four_pair" ->
            {<<t, r, b, l>> : t \in uniform(pc_[1][1], pc_[1][2]), r \in uniform(pc_[2][1], pc_[2][2]),
                               b \in uniform(pc_[3][1], pc_[3][2]), l \in uniform(pc_[4][1], pc_[4][2])}

\* Lines 903-912: new_params of one call, in pixels: the exception raised, or
\* the lists that the draws can give.
CropAndPad_new_params(self, height, width) ==
    IF ~IsNone(self.px)
    THEN LET params == _get_px_params(self) IN
         [err |-> IF params = {} THEN "ValueError: empty range for randrange()" ELSE "",
          params |-> params]
    ELSE IF IsNone(self.percent)
    THEN [err |-> "ValueError: percent is not set", params |-> {}]
    ELSE [err |-> "",
          params |-> {<<PyInt(p[1] * height, PercentDen), PyInt(p[2] * width, PercentDen),
                        PyInt(p[3] * height, PercentDen), PyInt(p[4] * width, PercentDen)>> :
                        p \in _get_percent_params(self)}]

(***************************************************************************)
(* The state machine.                                                      *)
(***************************************************************************)
Init ==
    /\ strategy = NoStrategy
    /\ pc = "init"
    /\ err = ""
    /\ frame = <<1, 1>>
    /\ new_params = None
    /\ regain = [h |-> None, w |-> None]
    /\ attempt = 0
    /\ cand = None
    /\ desc = None
    /\ ctor_args = None
    /\ targets = None
    /\ draw = None
    /\ applied = None
    /\ calls = 0

\* CropAndPad(px=..., percent=..., sample_independently=...)
CAP_Construct ==
    /\ pc = "init"
    /\ \E px \in PxConfigs \cup {NoneCfg}, sample_independently \in BOOLEAN :
         \E percent \in (IF IsNone(px) THEN PercentConfigs ELSE PercentFloatConfigs) \cup {NoneCfg} :
            LET r == CropAndPad_init(px, percent, sample_independently) IN
            /\ strategy' = r.self
            /\ pc' = IF r.ok THEN "constructed" ELSE "failed"
            /\ err' = r.err
            /\ ctor_args' = [px |-> px, percent |-> percent]
    /\ UNCHANGED <<frame, new_params, regain, attempt, cand, desc, targets, draw, applied, calls>>

Callable == pc = "constructed"

\* A slip: the pad amounts are written back into the list, which for a list of
\* four ints is self.px itself (line 957).
CropAndPad_self_after_inplace(self, p) ==
    IF self.px.kind = "four_int"
    THEN [self EXCEPT !.px = [kind |-> "four_int", val |-> PadOf(p)]]
    ELSE self

\* Lines 900-980 assign no attribute of self, and the list that _get_px_params
\* and _get_percent_params hand out by reference (lines 957, 977) is only read:
\* pad_params and the argument of _prevent_zero are new lists (lines 914-916).
CropAndPad_self_after(self, p) == self

\* CropAndPad.get_params_dependent_on_targets on an image of rows x cols.
CAP_Sample ==
    /\ Callable
    /\ strategy.kind = "CropAndPad"
    /\ calls < MaxCalls
    /\ calls' = calls + 1
    /\ \E image \in Frames :
         LET rows == image[1]
             cols == image[2]
             got == CropAndPad_new_params(strategy, rows, cols)
         IN
         /\ frame' = image
         /\ IF got.err # ""
            THEN /\ pc' = "error"
                 /\ err' = got.err
                 /\ new_params' = None
                 /\ regain' = [h |-> None, w |-> None]
                 /\ desc' = None
                 /\ strategy' = strategy
            ELSE \E p \in got.params :
                 /\ pc' = "sampled"
                 /\ err' = ""
                 /\ new_params' = p
                 /\ regain' = RegainLocals(CropOf(p), rows, cols)
                 /\ desc' = CropAndPad_descriptor(strategy, p, rows, cols)
                 /\ strategy' = CropAndPad_self_after(strategy, p)
    /\ UNCHANGED <<attempt, cand, ctor_args, targets, draw, applied>>

\* The caller applies the descriptor to the targets of the sample (or sees the
\* exception) and discards it; the strategy is ready for the next sample.
Consume ==
    /\ pc \in {"sampled", "applied", "error"}
    /\ pc' = "constructed"
    /\ err' = ""
    /\ new_params' = None
    /\ regain' = [h |-> None, w |-> None]
    /\ attempt' = 0
    /\ cand' = None
    /\ desc' = None
    /\ frame' = <<1, 1>>
    /\ targets' = None
    /\ draw' = None
    /\ applied' = None
    /\ UNCHANGED <<strategy, ctor_args, calls>>

NextCAP == CAP_Construct \/ CAP_Sample \/ Consume

SpecCAP == Init /\ [][NextCAP]_vars

(***************************************************************************)
(* RandomResizedCrop                                                       *)
(***************************************************************************)
MaxAttempts == 10

\* scale = (a / ScaleDen, b / ScaleDen): the ranges of [0, 1], one with a
\* negative bound and one with min > max.
ScaleRanges ==
    {r \in (0..ScaleDen) \X (0..ScaleDen) : r[1] <= r[2]} \cup {<<-1, 1>>, <<ScaleDen, 0>>}

\* ratio = (a / RatioDen, b / RatioDen): the positive ranges, one with a zero
\* bound and one with min > max.
RatioRanges ==
    {r \in (1..MaxRatioNum) \X (1..MaxRatioNum) : r[1] <= r[2]} \cup {<<0, 1>>, <<MaxRatioNum, 1>>}

\* The images <<rows, cols>> given to RandomResizedCrop.
RrcFrames == {<<r, c>> : r \in 1..MaxDim, c \in 1..MaxDim}

\* RandomResizedCrop.__init__
RandomResizedCrop_init(height, width, scale, ratio) ==
    [ok |-> TRUE, err |-> "",
     self |-> [kind |-> "RandomResizedCrop", height |-> height, width |-> width,
               scale |-> scale, ratio |-> ratio]]

\* A slip: a candidate as wide or as high as the image is rejected.
Accepts_strict(width, height, rows, cols) ==
    0 < width /\ width < cols /\ 0 < height /\ height < rows

\* Line 429: 0 < width <= img.shape[1] and 0 < height <= img.shape[0]
Accepts(width, height, rows, cols) ==
    0 < width /\ width <= cols /\ 0 < height /\ height <= rows

\* Lines 432-437 and 452-457: h_start = i * 1.0 / (rows - height + 1e-10) is kept
\* as <<i, rows - height>>, and w_start likewise.
CropDict(height, width, i, j, rows, cols) ==
    [crop_height |-> height, crop_width |-> width,
     h_start |-> <<i, rows - height>>, w_start |-> <<j, cols - width>>]

\* Lines 422-427 for the draws s / ScaleDen of random.uniform(*self.scale) and
\* ar / RatioDen of the aspect ratio: <<width, height>>.
Candidate(s, ar, area) ==
    <<RoundSqrt(s * area * ar, ScaleDen * RatioDen), RoundSqrt(s * area * RatioDen, ScaleDen * ar)>>

\* Lines 439-457: the central crop.
Fallback(self, rows, cols) ==
    LET min_ratio == Min(self.ratio[1], self.ratio[2])
        max_ratio == Max(self.ratio[1], self.ratio[2])
        width == IF cols * RatioDen < min_ratio * rows THEN cols
                 ELSE IF cols * RatioDen > max_ratio * rows
                 THEN RoundDiv(rows * max_ratio, RatioDen)
                 ELSE cols
        height == IF cols * RatioDen < min_ratio * rows
                  THEN RoundDiv(cols * RatioDen, min_ratio)
                  ELSE rows
        i == (rows - height) \div 2
        j == (cols - width) \div 2
    IN  CropDict(height, width, i, j, rows, cols)

RRC_Construct ==
    /\ pc = "init"
    /\ \E scale \in ScaleRanges, ratio \in RatioRanges :
         LET r == RandomResizedCrop_init(2, 3, scale, ratio) IN
         /\ strategy' = r.self
         /\ pc' = "constructed"
         /\ err' = r.err
         /\ ctor_args' = [scale |-> scale, ratio |-> ratio]
    /\ UNCHANGED <<frame, new_params, regain, attempt, cand, desc, targets, draw, applied, calls>>

\* RandomResizedCrop.get_params_dependent_on_targets, lines 418-419.
RRC_Begin ==
    /\ Callable
    /\ strategy.kind = "RandomResizedCrop"
    /\ \E image \in RrcFrames : frame' = image
    /\ pc' = "sampling"
    /\ attempt' = 0
    /\ UNCHANGED <<strategy, err, new_params, regain, cand, desc, ctor_args, targets, draw,
                 applied, calls>>

\* One iteration of `for _ in range(10)`, lines 421-437.
RRC_Attempt ==
    /\ pc = "sampling"
    /\ strategy.kind = "RandomResizedCrop"
    /\ attempt < MaxAttempts
    /\ LET rows == frame[1]
           cols == frame[2]
           area == rows * cols
       IN
       IF strategy.ratio[1] <= 0 \/ strategy.ratio[2] <= 0
       THEN \* math.log of a non-positive number
            /\ pc' = "error"
            /\ err' = "ValueError: math domain error"
            /\ UNCHANGED <<attempt, cand, desc>>
       ELSE \E s \in uniform(strategy.scale[1], strategy.scale[2]),
               ar \in uniform(strategy.ratio[1], strategy.ratio[2]) :
            IF s < 0
            THEN \* math.sqrt of a negative number
                 /\ pc' = "error"
                 /\ err' = "ValueError: math domain error"
                 /\ UNCHANGED <<attempt, cand, desc>>
            ELSE LET wh == Candidate(s, ar, area)
                     width == wh[1]
                     height == wh[2]
                 IN
                 /\ cand' = wh
                 /\ err' = ""
                 /\ IF Accepts(width, height, rows, cols)
                    THEN \E i \in randint(0, rows - height), j \in randint(0, cols - width) :
                         /\ desc' = CropDict(height, width, i, j, rows, cols)
                         /\ pc' = "sampled"
                         /\ UNCHANGED attempt
                    ELSE /\ attempt' = attempt + 1
                         /\ UNCHANGED <<pc, desc>>
    /\ UNCHANGED <<strategy, frame, new_params, regain, ctor_args, targets, draw, applied, calls>>

\* The loop has run out: lines 439-457.
RRC_Fallback ==
    /\ pc = "sampling"
    /\ strategy.kind = "RandomResizedCrop"
    /\ attempt = MaxAttempts
    /\ desc' = Fallback(strategy, frame[1], frame[2])
    /\ pc' = "sampled"
    /\ UNCHANGED <<strategy, err, frame, new_params, regain, attempt, cand, ctor_args, targets,
                 draw, applied, calls>>

NextRRC == RRC_Construct \/ RRC_Begin \/ RRC_Attempt \/ RRC_Fallback \/ Consume

SpecRRC == Init /\ [][NextRRC]_vars

\* A call that has started keeps running until it returns or raises.
FairSpecRRC == SpecRRC /\ WF_vars(RRC_Attempt) /\ WF_vars(RRC_Fallback)

(***************************************************************************)
(* The constructors of the other strategies.                               *)
(***************************************************************************)
\* Fractions n / FracDen given to the constructors: from below 0 to above 1.
FracNums == (-1)..(FracDen + 1)

\* RandomCropFromBorders.__init__
RandomCropFromBorders_init(crop_left, crop_right, crop_top, crop_bottom) ==
    [ok |-> TRUE, err |-> "",
     self |-> [kind |-> "RandomCropFromBorders", crop_left |-> crop_left, crop_right |-> crop_right,
               crop_top |-> crop_top, crop_bottom |-> crop_bottom]]

\* BBoxSafeRandomCrop.__init__
BBoxSafeRandomCrop_init(erosion_rate) ==
    [ok |-> TRUE, err |-> "",
     self |-> [kind |-> "BBoxSafeRandomCrop", erosion_rate |-> erosion_rate]]

\* RandomCropNearBBox.__init__ with max_part_shift a pair of fractions.
RandomCropNearBBox_init(max_part_shift) ==
    IF Min(max_part_shift[1], max_part_shift[2]) < 0
       \/ Max(max_part_shift[1], max_part_shift[2]) > FracDen
    THEN [ok |-> FALSE, err |-> "ValueError: Invalid max_part_shift", self |-> NoStrategy]
    ELSE [ok |-> TRUE, err |-> "",
          self |-> [kind |-> "RandomCropNearBBox", max_part_shift |-> max_part_shift,
                    cropping_bbox_key |-> "cropping_bbox"]]

\* RandomSizedCrop.__init__
RandomSizedCrop_init(min_max_height, height, width) ==
    [ok |-> TRUE, err |-> "",
     self |-> [kind |-> "RandomSizedCrop", min_max_height |-> min_max_height,
               height |-> height, width |-> width, w2h_ratio |-> RatioDen]]

RCFB_Construct ==
    /\ pc = "init"
    /\ \E l \in FracNums, r \in FracNums, t \in FracNums, b \in FracNums :
         LET c == RandomCropFromBorders_init(l, r, t, b) IN
         /\ strategy' = c.self
         /\ pc' = "constructed"
         /\ err' = c.err
         /\ ctor_args' = <<l, r, t, b>>
    /\ UNCHANGED <<frame, new_params, regain, attempt, cand, desc, targets, draw, applied, calls>>

BBS_Construct ==
    /\ pc = "init"
    /\ \E erosion_rate \in FracNums :
         LET c == BBoxSafeRandomCrop_init(erosion_rate) IN
         /\ strategy' = c.self
         /\ pc' = "constructed"
         /\ err' = c.err
         /\ ctor_args' = <<erosion_rate>>
    /\ UNCHANGED <<frame, new_params, regain, attempt, cand, desc, targets, draw, applied, calls>>

NearBBox_Construct ==
    /\ pc = "init"
    /\ \E h \in FracNums, w \in FracNums :
         LET c == RandomCropNearBBox_init(<<h, w>>) IN
         /\ strategy' = c.self
         /\ pc' = IF c.ok THEN "constructed" ELSE "failed"
         /\ err' = c.err
         /\ ctor_args' = <<h, w>>
    /\ UNCHANGED <<frame, new_params, regain, attempt, cand, desc, targets, draw, applied, calls>>

RSC_Construct ==
    /\ pc = "init"
    /\ \E lo \in 1..MaxDim, hi \in 1..MaxDim :
         LET c == RandomSizedCrop_init(<<lo, hi>>, 2, 3) IN
         /\ strategy' = c.self
         /\ pc' = "constructed"
         /\ err' = c.err
         /\ ctor_args' = <<lo, hi>>
    /\ UNCHANGED <<frame, new_params, regain, attempt, cand, desc, targets, draw, applied, calls>>

NextCtor ==
    \/ CAP_Construct
    \/ RCFB_Construct
    \/ BBS_Construct
    \/ NearBBox_Construct
    \/ RRC_Construct
    \/ RSC_Construct

SpecCtor == Init /\ [][NextCtor]_vars

(***************************************************************************)
(* RandomCropFromBorders                                                   *)
(***************************************************************************)
\* The images <<rows, cols>> given to the strategies below.
SmallFrames == {<<r, c>> : r \in 1..MaxDim, c \in 1..MaxDim}

\* A slip: x_max may be drawn from x_min on, without the `+ 1`.
BorderHighRange_loose(low, crop_far, size) ==
    randint(Max(low, PyInt((FracDen - crop_far) * size, FracDen)), size)

\* Lines 1050 and 1052: the range of x_max (y_max) once x_min (y_min) = low is
\* drawn; crop_far is crop_right (crop_bottom), size is img.shape[1] (img.shape[0]).
BorderHighRange(low, crop_far, size) ==
    randint(Max(low + 1, PyInt((FracDen - crop_far) * size, FracDen)), size)

\* Lines 1049 and 1051: the range of x_min (y_min).
BorderLowRange(crop_near, size) == randint(0, PyInt(crop_near * size, FracDen))

\* The pairs <<x_min, x_max>> (<<y_min, y_max>>) that lines 1049-1052 can draw.
BorderDraws(crop_near, crop_far, size) ==
    {d \in (0..size) \X (0..size) :
        d[1] \in BorderLowRange(crop_near, size) /\ d[2] \in BorderHighRange(d[1], crop_far, size)}

\* random.randint raises ValueError on an empty range: for the first draw of
\* the axis, or for the second after some outcome of the first.
BorderRaises(crop_near, crop_far, size) ==
    \/ BorderLowRange(crop_near, size) = {}
    \/ \E low \in BorderLowRange(crop_near, size) : BorderHighRange(low, crop_far, size) = {}

\* RandomCropFromBorders.get_params_dependent_on_targets, lines 1047-1053.
RCFB_Sample ==
    /\ Callable
    /\ strategy.kind = "RandomCropFromBorders"
    /\ \E image \in SmallFrames :
         LET rows == image[1]
             cols == image[2]
             xs == BorderDraws(strategy.crop_left, strategy.crop_right, cols)
             ys == BorderDraws(strategy.crop_top, strategy.crop_bottom, rows)
         IN
         /\ frame' = image
         /\ \/ /\ \/ BorderRaises(strategy.crop_left, strategy.crop_right, cols)
                  \/ xs # {} /\ BorderRaises(strategy.crop_top, strategy.crop_bottom, rows)
               /\ pc' = "error"
               /\ err' = "ValueError: empty range for randrange()"
               /\ desc' = None
            \/ \E x \in xs, y \in ys :
               /\ pc' = "sampled"
               /\ err' = ""
               /\ desc' = [x_min |-> x[1], x_max |-> x[2], y_min |-> y[1], y_max |-> y[2]]
    /\ UNCHANGED <<strategy, new_params, regain, attempt, cand, ctor_args, targets, draw,
                 applied, calls>>

NextRCFB == RCFB_Construct \/ RCFB_Sample \/ Consume

SpecRCFB == Init /\ [][NextRCFB]_vars

(***************************************************************************)
(* CropNonEmptyMaskIfExists                                                *)
(***************************************************************************)
MaskDim == 2

\* The images <<rows, cols>> given with a mask; a mask has the shape of its image.
MaskFrames == {<<r, c>> : r \in 1..MaskDim, c \in 1..(MaskDim + 1)}

\* The indices <<y, x>> of an array of h rows and w columns.
Pixels(h, w) == (0..(h - 1)) \X (0..(w - 1))

\* No pixel: lets a mask have fewer foreground pixels.
NoPixel == <<-1, -1>>

\* 2-D masks with at most two non-zero pixels, with values 1 and 2.
Masks2D(h, w) ==
    {[shape |-> <<h, w>>,
      at |-> [p \in Pixels(h, w) |-> IF p = a THEN 1 ELSE IF p = b THEN v ELSE 0]] :
        a \in Pixels(h, w) \cup {NoPixel}, b \in Pixels(h, w) \cup {NoPixel}, v \in {1, 2}}

\* 3-D masks of two channels with at most one non-zero pixel.
Masks3D(h, w) ==
    {[shape |-> <<h, w, 2>>,
      at |-> [p \in Pixels(h, w) |-> IF p = a THEN c ELSE <<0, 0>>]] :
        a \in Pixels(h, w) \cup {NoPixel}, c \in {<<1, 0>>, <<0, 2>>, <<1, 2>>}}

\* Lists of 2-D masks: the empty list and lists of two masks of one pixel each.
MaskLists(h, w) ==
    {<<>>} \cup
    {<<[shape |-> <<h, w>>, at |-> [p \in Pixels(h, w) |-> IF p = a THEN 1 ELSE 0]],
       [shape |-> <<h, w>>, at |-> [p \in Pixels(h, w) |-> IF p = b THEN 2 ELSE 0]]>> :
        a \in Pixels(h, w) \cup {NoPixel}, b \in Pixels(h, w) \cup {NoPixel}}

\* The keyword arguments of update_params that the strategy looks at.
MaskKwargs(h, w) ==
    {[key |-> "mask", mask |-> m] : m \in Masks2D(h, w) \cup Masks3D(h, w)}
    \cup {[key |-> "masks", masks |-> l] : l \in MaskLists(h, w)}
    \cup {[key |-> "none"]}

\* ignore_values / ignore_channels as given to the constructor: None, a list, an int.
IgnoreValuesArgs == {NoneCfg, [kind |-> "list", val |-> <<1>>], [kind |-> "int", val |-> 1]}

IgnoreChannelsArgs == {NoneCfg, [kind |-> "list", val |-> <<0>>], [kind |-> "int", val |-> 0]}

\* CropNonEmptyMaskIfExists.__init__, lines 179-198.
CropNonEmptyMaskIfExists_init(height, width, ignore_values, ignore_channels) ==
    IF ignore_values.kind \notin {"None", "list"}
    THEN [ok |-> FALSE, err |-> "ValueError: Expected ignore_values of type list", self |-> NoStrategy]
    ELSE IF ignore_channels.kind \notin {"None", "list"}
    THEN [ok |-> FALSE, err |-> "ValueError: Expected ignore_channels of type list", self |-> NoStrategy]
    ELSE [ok |-> TRUE, err |-> "",
          self |-> [kind |-> "CropNonEmptyMaskIfExists", height |-> height, width |-> width,
                    ignore_values |-> ignore_values, ignore_channels |-> ignore_channels]]

InList(v, list) == \E i \in DOMAIN list : list[i] = v

\* Lines 226-228: np.where(np.isin(mask, ignore_values_np), 0, mask), one element.
IgnoreValue(self, v) ==
    IF self.ignore_values.kind # "None" /\ InList(v, self.ignore_values.val) THEN 0 ELSE v

\* Lines 231-232: the channels ch, ch + 1, ... of vals that are not ignored.
RECURSIVE TakeChannels(_, _, _)
TakeChannels(vals, ignore_channels, ch) ==
    IF ch >= Len(vals) THEN <<>>
    ELSE (IF InList(ch, ignore_channels) THEN <<>> ELSE <<vals[ch + 1]>>)
         \o TakeChannels(vals, ignore_channels, ch + 1)

\* A slip: the crop size is not compared with the mask.
_preprocess_mask_unchecked(self, mask) ==
    LET mask_height == mask.shape[1]
        mask_width == mask.shape[2]
        ndim == Len(mask.shape)
        ignored == [p \in DOMAIN mask.at |->
                      IF ndim = 3 THEN [c \in DOMAIN mask.at[p] |-> IgnoreValue(self, mask.at[p][c])]
                      ELSE IgnoreValue(self, mask.at[p])]
        taken == IF ndim = 3 /\ self.ignore_channels.kind # "None"
                 THEN [p \in DOMAIN mask.at |-> TakeChannels(ignored[p], self.ignore_channels.val, 0)]
                 ELSE ignored
        channels == IF ndim = 3 /\ self.ignore_channels.kind # "None"
                    THEN Len(TakeChannels(<<0, 0>>, self.ignore_channels.val, 0))
                    ELSE IF ndim = 3 THEN mask.shape[3] ELSE 0
    IN  [err |-> "",
         mask |-> [shape |-> IF ndim = 3 THEN <<mask_height, mask_width, channels>>
                             ELSE <<mask_height, mask_width>>,
                   at |-> taken]]

\* CropNonEmptyMaskIfExists._preprocess_mask, lines 223-239.
_preprocess_mask(self, mask) ==
    LET mask_height == mask.shape[1]
        mask_width == mask.shape[2]
        ndim == Len(mask.shape)
        ignored == [p \in DOMAIN mask.at |->
                      IF ndim = 3 THEN [c \in DOMAIN mask.at[p] |-> IgnoreValue(self, mask.at[p][c])]
                      ELSE IgnoreValue(self, mask.at[p])]
        taken == IF ndim = 3 /\ self.ignore_channels.kind # "None"
                 THEN [p \in DOMAIN mask.at |-> TakeChannels(ignored[p], self.ignore_channels.val, 0)]
                 ELSE ignored
        channels == IF ndim = 3 /\ self.ignore_channels.kind # "None"
                    THEN Len(TakeChannels(<<0, 0>>, self.ignore_channels.val, 0))
                    ELSE IF ndim = 3 THEN mask.shape[3] ELSE 0
    IN  IF self.height > mask_height \/ self.width > mask_width
        THEN [err |-> "ValueError: Crop size is larger than image", mask |-> None]
        ELSE [err |-> "",
              mask |-> [shape |-> IF ndim = 3 THEN <<mask_height, mask_width, channels>>
                                  ELSE <<mask_height, mask_width>>,
                        at |-> taken]]

\* a | b on non-negative integers.
RECURSIVE BitOr(_, _)
BitOr(a, b) ==
    IF a = 0 THEN b
    ELSE IF b = 0 THEN a
    ELSE Max(a % 2, b % 2) + 2 * BitOr(a \div 2, b \div 2)

\* Lines 249-250: mask |= self._preprocess_mask(m) for the masks i, i + 1, ...
RECURSIVE OrMasks(_, _, _, _)
OrMasks(self, masks, i, acc) ==
    IF i > Len(masks) THEN [err |-> "", mask |-> acc]
    ELSE LET m == _preprocess_mask(self, masks[i]) IN
         IF m.err # "" THEN m
         ELSE OrMasks(self, masks, i + 1,
                      [shape |-> acc.shape,
                       at |-> [p \in DOMAIN acc.at |-> BitOr(acc.at[p], m.mask.at[p])]])

\* Lines 244-252: the mask that the crop is sampled from, or the exception.
CNEM_mask(self, kwargs) ==
    IF kwargs.key = "mask" THEN _preprocess_mask(self, kwargs.mask)
    ELSE IF kwargs.key = "masks" /\ Len(kwargs.masks) > 0
    THEN LET first == _preprocess_mask(self, kwargs.masks[1]) IN
         IF first.err # "" THEN first ELSE OrMasks(self, kwargs.masks, 2, first.mask)
    ELSE [err |-> "RuntimeError: Can not find mask for CropNonEmptyMaskIfExists", mask |-> None]

RECURSIVE SumSeq(_)
SumSeq(vals) == IF vals = <<>> THEN 0 ELSE Head(vals) + SumSeq(Tail(vals))

\* Line 256: mask.any()
MaskAny(mask) ==
    \E p \in DOMAIN mask.at :
        IF Len(mask.shape) = 3 THEN \E c \in DOMAIN mask.at[p] : mask.at[p][c] # 0
        ELSE mask.at[p] # 0

\* Lines 257-258: np.argwhere(mask.sum(axis=-1) if mask.ndim == THREE else mask)
non_zero_yx(mask) ==
    {p \in DOMAIN mask.at :
        (IF Len(mask.shape) = 3 THEN SumSeq(mask.at[p]) ELSE mask.at[p]) # 0}

\* np.clip(a, a_min, a_max)
clip(a, a_min, a_max) == Min(Max(a, a_min), a_max)

\* A slip: the jitter may be as large as the crop size.
Jitter_wide(size) == randint(0, size)

\* Lines 260-261: random.randint(0, self.width - 1), random.randint(0, self.height - 1)
Jitter(size) == randint(0, size - 1)

CNEM_Construct ==
    /\ pc = "init"
    /\ \E height \in 1..MaxDim, width \in 1..MaxDim,
          ignore_values \in IgnoreValuesArgs, ignore_channels \in IgnoreChannelsArgs :
         LET c == CropNonEmptyMaskIfExists_init(height, width, ignore_values, ignore_channels) IN
         /\ strategy' = c.self
         /\ pc' = IF c.ok THEN "constructed" ELSE "failed"
         /\ err' = c.err
         /\ ctor_args' = <<height, width, ignore_values, ignore_channels>>
    /\ UNCHANGED <<frame, new_params, regain, attempt, cand, desc, targets, draw, applied, calls>>

\* CropNonEmptyMaskIfExists.update_params, lines 241-272.
CNEM_Sample ==
    /\ Callable
    /\ strategy.kind = "CropNonEmptyMaskIfExists"
    /\ \E image \in MaskFrames : \E kwargs \in MaskKwargs(image[1], image[2]) :
         LET got == CNEM_mask(strategy, kwargs)
             mask == got.mask
             mask_height == mask.shape[1]
             mask_width == mask.shape[2]
         IN
         /\ frame' = image
         /\ targets' = kwargs
         /\ IF got.err # ""
            THEN /\ pc' = "error"
                 /\ err' = got.err
                 /\ desc' = None
                 /\ draw' = None
            ELSE /\ pc' = "sampled"
                 /\ err' = ""
                 /\ IF MaskAny(mask)
                    THEN \E yx \in non_zero_yx(mask) :
                         \E jx \in Jitter(strategy.width), jy \in Jitter(strategy.height) :
                            LET x_min == clip(yx[2] - jx, 0, mask_width - strategy.width)
                                y_min == clip(yx[1] - jy, 0, mask_height - strategy.height)
                            IN
                            /\ draw' = [y |-> yx[1], x |-> yx[2]]
                            /\ desc' = [x_min |-> x_min, x_max |-> x_min + strategy.width,
                                        y_min |-> y_min, y_max |-> y_min + strategy.height]
                    ELSE \E x_min \in randint(0, mask_width - strategy.width),
                            y_min \in randint(0, mask_height - strategy.height) :
                            /\ draw' = None
                            /\ desc' = [x_min |-> x_min, x_max |-> x_min + strategy.width,
                                        y_min |-> y_min, y_max |-> y_min + strategy.height]
    /\ UNCHANGED <<strategy, new_params, regain, attempt, cand, ctor_args, applied, calls>>

NextCNEM == CNEM_Construct \/ CNEM_Sample \/ Consume

SpecCNEM == Init /\ [][NextCNEM]_vars

(***************************************************************************)
(* The collaborators in crops/functional.py and geometric/functional.py:   *)
(* the crop window of a pair of start fractions and the keypoint mappers.  *)
(* A fraction is a pair <<numerator, denominator>>.                        *)
(***************************************************************************)
RandDen == 2

\* random.random(): the grid values of [0, 1).
random_ == {<<k, RandDen>> : k \in 0..(RandDen - 1)}

\* int(extent * start) for a start fraction; a start 0 / 0 is the 0.0 that
\* i / (rows - height + 1e-10) gives for i = 0.
ScaleDraw(extent, start) ==
    IF start[2] = 0 THEN 0 ELSE PyInt(extent * start[1], start[2])

\* The window <<x1, y1, x2, y2>> of a crop of crop_height x crop_width in an
\* image of height x width: the start fractions scaled by the free extent.
get_random_crop_coords(height, width, crop_height, crop_width, h_start, w_start) ==
    LET y1 == ScaleDraw(height - crop_height, h_start)
        x1 == ScaleDraw(width - crop_width, w_start)
    IN  <<x1, y1, x1 + crop_width, y1 + crop_height>>

\* F.random_crop: the window that is cut out of the image, or the exception.
random_crop(rows, cols, crop_height, crop_width, h_start, w_start) ==
    IF rows < crop_height \/ cols < crop_width
    THEN [err |-> "ValueError: Requested crop size is larger than the image size", crop |-> None]
    ELSE [err |-> "",
          crop |-> get_random_crop_coords(rows, cols, crop_height, crop_width, h_start, w_start)]

\* F.keypoint_random_crop: the keypoint <<x, y>> relative to the window's origin.
keypoint_random_crop(keypoint, crop_height, crop_width, h_start, w_start, rows, cols) ==
    LET c == get_random_crop_coords(rows, cols, crop_height, crop_width, h_start, w_start)
    IN  <<keypoint[1] - c[1], keypoint[2] - c[2]>>

\* FGeometric.keypoint_scale: x and y times the fractions scale_x and scale_y.
keypoint_scale(keypoint, scale_x, scale_y) ==
    <<<<keypoint[1] * scale_x[1], scale_x[2]>>, <<keypoint[2] * scale_y[1], scale_y[2]>>>>

(***************************************************************************)
(* RandomCrop                                                              *)
(***************************************************************************)
\* RandomCrop.__init__, lines 50-53.
RandomCrop_init(height, width) ==
    [ok |-> TRUE, err |-> "",
     self |-> [kind |-> "RandomCrop", height |-> height, width |-> width]]

\* A slip: height and width change places in the call.
RandomCrop_apply_swapped(self, rows, cols, h_start, w_start) ==
    random_crop(rows, cols, self.width, self.height, h_start, w_start)

\* RandomCrop.apply, lines 55-56.
RandomCrop_apply(self, rows, cols, h_start, w_start) ==
    random_crop(rows, cols, self.height, self.width, h_start, w_start)

RC_Construct ==
    /\ pc = "init"
    /\ \E height \in 1..MaxDim, width \in 1..MaxDim :
         LET c == RandomCrop_init(height, width) IN
         /\ strategy' = c.self
         /\ pc' = "constructed"
         /\ err' = c.err
         /\ ctor_args' = <<height, width>>
    /\ UNCHANGED <<frame, new_params, regain, attempt, cand, desc, targets, draw, applied, calls>>

\* RandomCrop.get_params, lines 58-59, for a call with the given image.
RC_Sample ==
    /\ Callable
    /\ strategy.kind = "RandomCrop"
    /\ \E image \in Frames : frame' = image
    /\ \E h_start \in random_, w_start \in random_ :
         desc' = [h_start |-> h_start, w_start |-> w_start]
    /\ pc' = "sampled"
    /\ UNCHANGED <<strategy, err, new_params, regain, attempt, cand, ctor_args, targets, draw,
                 applied, calls>>

\* RandomCrop.apply with the sampled parameters.
RC_Apply ==
    /\ pc = "sampled"
    /\ strategy.kind = "RandomCrop"
    /\ LET r == RandomCrop_apply(strategy, frame[1], frame[2], desc.h_start, desc.w_start) IN
       /\ pc' = IF r.err # "" THEN "error" ELSE "applied"
       /\ err' = r.err
       /\ applied' = IF r.err # "" THEN None ELSE [crop |-> r.crop]
    /\ UNCHANGED <<strategy, frame, new_params, regain, attempt, cand, desc, ctor_args,
                 targets, draw, calls>>

NextRC == RC_Construct \/ RC_Sample \/ RC_Apply \/ Consume

SpecRC == Init /\ [][NextRC]_vars

(***************************************************************************)
(* RandomSizedCrop and the apply methods of _BaseRandomSizedCrop           *)
(***************************************************************************)
\* Keypoints <<x, y>> given to apply_to_keypoint.
Keypoints == {<<x, y>> : x \in {0, MaxDim - 1}, y \in {0, MaxDim - 1}}

\* _BaseRandomSizedCrop.apply, lines 289-300: the window that is cut out and
\* the size it is resized to, or the exception.
BaseRandomSizedCrop_apply(self, rows, cols, d) ==
    LET r == random_crop(rows, cols, d.crop_height, d.crop_width, d.h_start, d.w_start) IN
    IF r.err # "" THEN [err |-> r.err, crop |-> None, size |-> None]
    ELSE [err |-> "", crop |-> r.crop, size |-> <<self.height, self.width>>]

\* A slip: the keypoint is scaled first and moved by the crop origin afterwards.
BaseRandomSizedCrop_apply_to_keypoint_scale_first(self, keypoint, d, rows, cols) ==
    LET c == get_random_crop_coords(rows, cols, d.crop_height, d.crop_width, d.h_start, d.w_start)
        kp == keypoint_scale(keypoint, <<self.width, d.crop_width>>, <<self.height, d.crop_height>>)
    IN  IF d.crop_width = 0 \/ d.crop_height = 0
        THEN [err |-> "ZeroDivisionError: division by zero", keypoint |-> None]
        ELSE [err |-> "",
              keypoint |-> <<<<kp[1][1] - c[1] * kp[1][2], kp[1][2]>>,
                             <<kp[2][1] - c[2] * kp[2][2], kp[2][2]>>>>]

\* _BaseRandomSizedCrop.apply_to_keypoint, lines 315-329.
BaseRandomSizedCrop_apply_to_keypoint(self, keypoint, d, rows, cols) ==
    LET kp == keypoint_random_crop(keypoint, d.crop_height, d.crop_width, d.h_start, d.w_start,
                                   rows, cols)
        scale_x == <<self.width, d.crop_width>>
        scale_y == <<self.height, d.crop_height>>
    IN  IF d.crop_width = 0 \/ d.crop_height = 0
        THEN [err |-> "ZeroDivisionError: division by zero", keypoint |-> None]
        ELSE [err |-> "", keypoint |-> keypoint_scale(kp, scale_x, scale_y)]

\* RandomSizedCrop.get_params, lines 368-375, for a call with the given image.
RSC_Sample ==
    /\ Callable
    /\ strategy.kind = "RandomSizedCrop"
    /\ \E image \in SmallFrames : frame' = image
    /\ IF randint(strategy.min_max_height[1], strategy.min_max_height[2]) = {}
       THEN /\ pc' = "error"
            /\ err' = "ValueError: empty range for randrange()"
            /\ desc' = None
       ELSE \E crop_height \in randint(strategy.min_max_height[1], strategy.min_max_height[2]),
               h_start \in random_, w_start \in random_ :
            /\ pc' = "sampled"
            /\ err' = ""
            /\ desc' = [crop_height |-> crop_height,
                        crop_width |-> PyInt(crop_height * strategy.w2h_ratio, RatioDen),
                        h_start |-> h_start, w_start |-> w_start]
    /\ UNCHANGED <<strategy, new_params, regain, attempt, cand, ctor_args, targets, draw, applied,
                   calls>>

\* apply on the image and apply_to_keypoint on a keypoint, with the sampled
\* parameters and the rows and cols of the image.
RSZ_Apply ==
    /\ pc = "sampled"
    /\ strategy.kind \in {"RandomSizedCrop", "RandomResizedCrop"}
    /\ \E keypoint \in Keypoints :
         LET img == BaseRandomSizedCrop_apply(strategy, frame[1], frame[2], desc)
             kp == BaseRandomSizedCrop_apply_to_keypoint(strategy, keypoint, desc, frame[1], frame[2])
         IN
         /\ targets' = [keypoint |-> keypoint]
         /\ IF img.err # ""
            THEN /\ pc' = "error"
                 /\ err' = img.err
                 /\ applied' = None
            ELSE IF kp.err # ""
            THEN /\ pc' = "error"
                 /\ err' = kp.err
                 /\ applied' = None
            ELSE /\ pc' = "applied"
                 /\ err' = ""
                 /\ applied' = [crop |-> img.crop, size |-> img.size, keypoint |-> kp.keypoint]
    /\ UNCHANGED <<strategy, frame, new_params, regain, attempt, cand, desc, ctor_args, draw, calls>>

NextResize ==
    \/ RSC_Construct
    \/ RSC_Sample
    \/ RRC_Construct
    \/ RRC_Begin
    \/ RRC_Attempt
    \/ RRC_Fallback
    \/ RSZ_Apply
    \/ Consume

SpecResize == Init /\ [][NextResize]_vars

(***************************************************************************)
(* RandomCropNearBBox                                                      *)
(***************************************************************************)
MaxExtent == 2

\* Reference rectangles <<x_min, y_min, x_max, y_max>> in pixels, with
\* x_min < x_max and y_min < y_max.
RefRects ==
    {<<x, y, x + w, y + h>> : x \in 0..1, y \in 0..1, w \in 1..MaxExtent, h \in 1..MaxExtent}

\* The parameters of the call: the rectangle under cropping_bbox_key, or
\* nothing under that key.
NearBBoxParams == {[key |-> "cropping_bbox", bbox |-> b] : b \in RefRects} \cup {[key |-> "none"]}

\* Lines 517-518: round(extent * max_part_shift) for extent >= 0.
MaxShift(extent, part) == RoundDiv(extent * part, FracDen)

\* RandomCropNearBBox.get_params_dependent_on_targets, lines 515-529.
NearBBox_Sample ==
    /\ Callable
    /\ strategy.kind = "RandomCropNearBBox"
    /\ \E params \in NearBBoxParams :
         /\ targets' = params
         /\ IF params.key # strategy.cropping_bbox_key
            THEN /\ pc' = "error"
                 /\ err' = "KeyError: cropping_bbox"
                 /\ desc' = None
            ELSE LET bbox == params.bbox
                     h_max_shift == MaxShift(bbox[4] - bbox[2], strategy.max_part_shift[1])
                     w_max_shift == MaxShift(bbox[3] - bbox[1], strategy.max_part_shift[2])
                 IN
                 \E dx_min \in randint(-w_max_shift, w_max_shift),
                    dx_max \in randint(-w_max_shift, w_max_shift),
                    dy_min \in randint(-h_max_shift, h_max_shift),
                    dy_max \in randint(-h_max_shift, h_max_shift) :
                    /\ pc' = "sampled"
                    /\ err' = ""
                    /\ desc' = [x_min |-> Max(0, bbox[1] - dx_min), x_max |-> bbox[3] + dx_max,
                                y_min |-> Max(0, bbox[2] - dy_min), y_max |-> bbox[4] + dy_max]
    /\ UNCHANGED <<strategy, frame, new_params, regain, attempt, cand, ctor_args, draw, applied,
                   calls>>

NextNearBBox == NearBBox_Construct \/ NearBBox_Sample \/ Consume

SpecNearBBox == Init /\ [][NextNearBBox]_vars

(***************************************************************************)
(* BBoxSafeRandomCrop                                                      *)
(***************************************************************************)
BoxDen == 2

\* Normalized boxes <<x_min, y_min, x_max, y_max>>, numerators over BoxDen.
NormBoxes ==
    {b \in (0..BoxDen) \X (0..BoxDen) \X (0..BoxDen) \X (0..BoxDen) : b[1] < b[3] /\ b[2] < b[4]}

\* params["bboxes"]: no box, one box, or the first and the last cell.
BoxLists ==
    {<<>>} \cup {<<b>> : b \in NormBoxes}
    \cup {<<<<0, 0, 1, 1>>, <<BoxDen - 1, BoxDen - 1, BoxDen, BoxDen>>>>}

\* The denominator of the coordinates that union_of_bboxes returns.
UnionDen == BoxDen * FracDen

\* A box shrunk by erosion_rate times its width and height on every side,
\* numerators over UnionDen.
ErodedBox(bbox, erosion_rate) ==
    LET w == bbox[3] - bbox[1]
        h == bbox[4] - bbox[2]
    IN  <<bbox[1] * FracDen + erosion_rate * w, bbox[2] * FracDen + erosion_rate * h,
          bbox[3] * FracDen - erosion_rate * w, bbox[4] * FracDen - erosion_rate * h>>

SetMin(S) == CHOOSE m \in S : \A n \in S : m <= n

SetMax(S) == CHOOSE m \in S : \A n \in S : m >= n

\* union_of_bboxes: the rectangle <<x, y, x2, y2>> around the eroded boxes.
union_of_bboxes(width, height, bboxes, erosion_rate) ==
    LET E == {ErodedBox(bboxes[i], erosion_rate) : i \in DOMAIN bboxes} IN
    <<SetMin({e[1] : e \in E}), SetMin({e[2] : e \in E}),
      SetMax({e[3] : e \in E}), SetMax({e[4] : e \in E})>>

\* np.clip(f, 0.0, 1.0) for a fraction with a positive denominator.
clip_unit(f) == IF f[1] < 0 THEN <<0, 1>> ELSE IF f[1] > f[2] THEN <<1, 1>> ELSE f

\* Lines 593-605 for the draws r[1], ..., r[4] of random.random(), in the order
\* of the calls (bx, by, bx2, by2). bx, by, bx2, by2, bw, bh are numerators
\* over UnionDen * RandDen.
BBoxSafeRandomCrop_params(self, img_h, img_w, bboxes, r) ==
    LET u == union_of_bboxes(img_w, img_h, bboxes, self.erosion_rate)
        den == UnionDen * RandDen
        bx == u[1] * r[1][1]
        by == u[2] * r[2][1]
        bx2 == u[3] * RandDen + (UnionDen - u[3]) * r[3][1]
        by2 == u[4] * RandDen + (UnionDen - u[4]) * r[4][1]
        bw == bx2 - bx
        bh == by2 - by
    IN  [h_start |-> IF bh >= den THEN <<0, 1>> ELSE clip_unit(<<by, den - bh>>),
         w_start |-> IF bw >= den THEN <<0, 1>> ELSE clip_unit(<<bx, den - bw>>),
         crop_height |-> IF bh >= den THEN img_h ELSE PyInt(img_h * bh, den),
         crop_width |-> IF bw >= den THEN img_w ELSE PyInt(img_w * bw, den)]

\* Lines 584-592: the crop heights that can be drawn when there is no box.
ErosiveHeights(self, img_h) ==
    LET erosive_h == PyInt(img_h * (FracDen - self.erosion_rate), FracDen) IN
    IF erosive_h >= img_h THEN {img_h} ELSE randint(erosive_h, img_h)

\* BBoxSafeRandomCrop.get_params_dependent_on_targets, lines 582-605.
BBS_Sample ==
    /\ Callable
    /\ strategy.kind = "BBoxSafeRandomCrop"
    /\ \E image \in SmallFrames, bboxes \in BoxLists :
         LET img_h == image[1]
             img_w == image[2]
         IN
         /\ frame' = image
         /\ targets' = [bboxes |-> bboxes]
         /\ IF Len(bboxes) = 0
            THEN \E crop_height \in ErosiveHeights(strategy, img_h),
                    h_start \in random_, w_start \in random_ :
                    desc' = [h_start |-> h_start, w_start |-> w_start,
                             crop_height |-> crop_height,
                             crop_width |-> PyInt(crop_height * img_w, img_h)]
            ELSE \E r \in random_ \X random_ \X random_ \X random_ :
                    desc' = BBoxSafeRandomCrop_params(strategy, img_h, img_w, bboxes, r)
    /\ pc' = "sampled"
    /\ err' = ""
    /\ UNCHANGED <<strategy, new_params, regain, attempt, cand, ctor_args, draw, applied, calls>>

\* BBoxSafeRandomCrop.apply, lines 571-580.
BBoxSafeRandomCrop_apply(self, rows, cols, d) ==
    random_crop(rows, cols, d.crop_height, d.crop_width, d.h_start, d.w_start)

BBS_Apply ==
    /\ pc = "sampled"
    /\ strategy.kind = "BBoxSafeRandomCrop"
    /\ LET r == BBoxSafeRandomCrop_apply(strategy, frame[1], frame[2], desc) IN
       /\ pc' = IF r.err # "" THEN "error" ELSE "applied"
       /\ err' = r.err
       /\ applied' = IF r.err # "" THEN None ELSE [crop |-> r.crop]
    /\ UNCHANGED <<strategy, frame, new_params, regain, attempt, cand, desc, ctor_args, targets,
                   draw, calls>>

NextBBS == BBS_Construct \/ BBS_Sample \/ BBS_Apply \/ Consume

SpecBBS == Init /\ [][NextBBS]_vars

(***************************************************************************)
(* CropAndPad: what a returned descriptor means.                           *)
(***************************************************************************)
CapSampled == pc = "sampled" /\ strategy.kind = "CropAndPad"

rows_ == frame[1]

cols_ == frame[2]

\* The rectangle <<x_min, y_min, x_max, y_max>> that the descriptor crops.
CropRect == IF desc.crop_params = None THEN <<0, 0, cols_, rows_>> ELSE desc.crop_params

\* The amounts <<top, right, bottom, left>> that the descriptor crops and pads.
CropAmounts == <<CropRect[2], cols_ - CropRect[3], rows_ - CropRect[4], CropRect[1]>>

PadAmounts ==
    IF desc.pad_params = None THEN <<0, 0, 0, 0>>
    ELSE <<desc.pad_params[1], desc.pad_params[4], desc.pad_params[2], desc.pad_params[3]>>

\* The amounts <<top, right, bottom, left>> requested: c = max(-value, 0), p = max(value, 0).
ReqCrop == [i \in 1..4 |-> Max(-new_params[i], 0)]

ReqPad == [i \in 1..4 |-> Max(new_params[i], 0)]

\* n split as evenly as possible, the extra unit first.
EvenSplit(n) == <<n - (n \div 2), n \div 2>>

\* C1: CropAndPad never returns a crop rectangle with less than 1 pixel of
\* height or width, whatever the per-side crop amounts are.
C1_CropAtLeastOnePixel ==
    CapSampled => /\ CropRect[3] - CropRect[1] >= 1
                  /\ CropRect[4] - CropRect[2] >= 1

\* C2: on an axis where the crop would leave less than 1 pixel, regain is the
\* combined crop requested on that axis plus 1, split evenly with the extra unit
\* first; -6 on all sides of a 10 x 10 frame gives 13 split 7/6.
C2_RegainIsCombinedCropPlusOne ==
    CapSampled =>
        /\ regain.h # None => regain.h = EvenSplit(ReqCrop[1] + ReqCrop[3] + 1)
        /\ regain.w # None => regain.w = EvenSplit(ReqCrop[4] + ReqCrop[2] + 1)
        /\ (frame = <<10, 10>> /\ new_params = <<-6, -6, -6, -6>>) =>
                regain = [h |-> <<7, 6>>, w |-> <<7, 6>>]

\* C3: all pad amounts and all crop amounts of a descriptor are >= 0, and no
\* side is both cropped and padded, also after zero-avoidance.
C3_CropPadDisjoint ==
    CapSampled =>
        \A i \in 1..4 : /\ PadAmounts[i] >= 0
                         /\ CropAmounts[i] >= 0
                         /\ (PadAmounts[i] = 0 \/ CropAmounts[i] = 0)

C3_Witness ==
    /\ CapSampled
    /\ regain.h # None
    /\ \E i \in 1..4 : PadAmounts[i] > 0
    /\ \E i \in 1..4 : CropAmounts[i] > 0

\* C4: crop_params is None exactly when nothing is cropped (the rectangle is
\* the whole frame), pad_params is None exactly when all four pads are 0, and
\* with both absent the result has the size of the frame.
C4_AbsentWhenIdentity ==
    CapSampled =>
        LET crop == _prevent_zero(ReqCrop, rows_, cols_) IN
        /\ desc.crop_params = None <=> crop = <<0, 0, 0, 0>>
        /\ desc.crop_params # <<0, 0, cols_, rows_>>
        /\ desc.pad_params = None <=> \A i \in 1..4 : new_params[i] <= 0
        /\ desc.pad_params # <<0, 0, 0, 0>>
        /\ (desc.crop_params = None /\ desc.pad_params = None) =>
                desc.result_rows = rows_ /\ desc.result_cols = cols_

C4_Witness ==
    /\ CapSampled
    /\ new_params = <<0, 0, 0, 0>>
    /\ desc.crop_params = None
    /\ desc.pad_params = None
    /\ frame = <<10, 10>>

\* C5: without zero-avoidance the crop rectangle is (cl, ct, cols - cr, rows - cb)
\* with c = max(-value, 0) per side, and the result size is the cropped size
\* plus the pads; -2 on all sides of 10 x 10 gives (2, 2, 8, 8), no pad, 6 x 6.
C5_PlainCropRect ==
    (CapSampled /\ regain.h = None /\ regain.w = None) =>
        /\ CropRect = <<ReqCrop[4], ReqCrop[1], cols_ - ReqCrop[2], rows_ - ReqCrop[3]>>
        /\ desc.result_rows = (rows_ - ReqCrop[1] - ReqCrop[3]) + ReqPad[1] + ReqPad[3]
        /\ desc.result_cols = (cols_ - ReqCrop[4] - ReqCrop[2]) + ReqPad[4] + ReqPad[2]
        /\ (frame = <<10, 10>> /\ new_params = <<-2, -2, -2, -2>>) =>
                /\ desc.crop_params = <<2, 2, 8, 8>>
                /\ desc.pad_params = None
                /\ desc.result_rows = 6 /\ desc.result_cols = 6

C5_Witness ==
    /\ CapSampled
    /\ frame = <<10, 10>>
    /\ new_params = <<-2, -2, -2, -2>>
    /\ desc.crop_params = <<2, 2, 8, 8>>

C5_WitnessAsymmetric ==
    /\ CapSampled
    /\ regain.h = None /\ regain.w = None
    /\ ReqCrop[2] > 0 /\ ReqCrop[4] = 0 /\ ReqPad[4] > 0

\* C6: CropAndPad with both px and percent, or with neither, fails in the
\* constructor and leaves no instance; sampling never meets such an instance.
C6_ExclusiveConfigAtConstruction ==
    /\ (pc # "init" /\ IsNone(ctor_args.px) = IsNone(ctor_args.percent)) =>
            pc = "failed" /\ strategy.kind = "none" /\ err # ""
    /\ strategy.kind = "CropAndPad" =>
            /\ IsNone(strategy.px) # IsNone(strategy.percent)
            /\ err \notin {"ValueError: px is not set", "ValueError: percent is not set"}

C6_Witness ==
    /\ pc = "failed"
    /\ ~IsNone(ctor_args.px)
    /\ ~IsNone(ctor_args.percent)
    /\ err = "ValueError: Only px or percent may be set!"

C6_WitnessNeither ==
    /\ pc = "failed"
    /\ IsNone(ctor_args.px)
    /\ IsNone(ctor_args.percent)

\* A fraction n / FracDen of [0, 1].
InUnit(n) == 0 <= n /\ n <= FracDen

\* C7: every strategy validates its parameters in the constructor: a strategy
\* that was constructed has its border fractions, erosion rate and shift
\* fractions in [0, 1] and min <= max in its ranges.
C7_ParametersValidatedAtConstruction ==
    pc = "constructed" =>
        /\ strategy.kind = "RandomCropFromBorders" =>
                /\ InUnit(strategy.crop_left) /\ InUnit(strategy.crop_right)
                /\ InUnit(strategy.crop_top) /\ InUnit(strategy.crop_bottom)
        /\ strategy.kind = "BBoxSafeRandomCrop" => InUnit(strategy.erosion_rate)
        /\ strategy.kind = "RandomCropNearBBox" =>
                InUnit(strategy.max_part_shift[1]) /\ InUnit(strategy.max_part_shift[2])
        /\ strategy.kind = "RandomResizedCrop" =>
                /\ strategy.scale[1] <= strategy.scale[2]
                /\ strategy.ratio[1] <= strategy.ratio[2]
        /\ strategy.kind = "RandomSizedCrop" =>
                strategy.min_max_height[1] <= strategy.min_max_height[2]

\* C8: with px a pair (a, b), a <= b, every side's amount comes from the closed
\* interval [a, b]: sampling does not fail, every value of a..b can be drawn,
\* and without sample_independently the four sides are equal.
C8_PxPairClosedInterval ==
    (strategy.kind = "CropAndPad" /\ strategy.px.kind = "pair"
        /\ strategy.px.val[1] <= strategy.px.val[2]) =>
        LET a == strategy.px.val[1]
            b == strategy.px.val[2]
        IN  /\ pc # "error"
            /\ pc = "sampled" =>
                    /\ \A i \in 1..4 : new_params[i] \in a..b
                    /\ ~strategy.sample_independently =>
                            \A i \in 1..4 : new_params[i] = new_params[1]
            /\ pc = "constructed" =>
                    \A v \in a..b : ENABLED (CAP_Sample /\ pc' = "sampled" /\ new_params'[1] = v)

RrcReturned == strategy.kind = "RandomResizedCrop" /\ pc = "sampled"

\* h is an integer nearest to n / d.
IsNearest(h, n, d) == 2 * Abs(h * d - n) <= d

\* C9: after 10 rejected candidates the crop is the documented fallback: width =
\* cols, height = round(cols / min(ratio)) when cols / rows < min(ratio); height
\* = rows, width = round(rows * max(ratio)) when cols / rows > max(ratio); else
\* the whole frame; centred at ((rows - height) // 2, (cols - width) // 2).
C9_FallbackIsDocumented ==
    (RrcReturned /\ attempt = MaxAttempts) =>
        LET min_ratio == Min(strategy.ratio[1], strategy.ratio[2])
            max_ratio == Max(strategy.ratio[1], strategy.ratio[2])
            height == desc.crop_height
            width == desc.crop_width
        IN  /\ IF cols_ * RatioDen < min_ratio * rows_
               THEN width = cols_ /\ IsNearest(height, cols_ * RatioDen, min_ratio)
               ELSE IF cols_ * RatioDen > max_ratio * rows_
               THEN height = rows_ /\ IsNearest(width, rows_ * max_ratio, RatioDen)
               ELSE width = cols_ /\ height = rows_
            /\ desc.h_start = <<(rows_ - height) \div 2, rows_ - height>>
            /\ desc.w_start = <<(cols_ - width) \div 2, cols_ - width>>
            /\ 2 * desc.h_start[1] <= rows_ - height /\ rows_ - height <= 2 * desc.h_start[1] + 1
            /\ 2 * desc.w_start[1] <= cols_ - width /\ cols_ - width <= 2 * desc.w_start[1] + 1

\* The fallback is reached with a frame narrower than min(ratio).
C9_Witness ==
    /\ RrcReturned
    /\ attempt = MaxAttempts
    /\ cols_ * RatioDen < Min(strategy.ratio[1], strategy.ratio[2]) * rows_
    /\ desc.crop_height < rows_

C9_WitnessWide ==
    /\ RrcReturned
    /\ attempt = MaxAttempts
    /\ cols_ * RatioDen > Max(strategy.ratio[1], strategy.ratio[2]) * rows_
    /\ desc.crop_width < cols_

C9_WitnessWhole ==
    /\ RrcReturned
    /\ attempt = MaxAttempts
    /\ desc.crop_width = cols_ /\ desc.crop_height = rows_
    /\ cols_ * RatioDen >= Min(strategy.ratio[1], strategy.ratio[2]) * rows_

Valid(wh) == 0 < wh[1] /\ wh[1] <= cols_ /\ 0 < wh[2] /\ wh[2] <= rows_

\* The safety part of C10: at most 10 candidates, every rejected one invalid,
\* the first valid one returned, the fallback only after 10 rejections, and a
\* return always carries a descriptor.
C10_Safety ==
    strategy.kind = "RandomResizedCrop" =>
        /\ attempt \in 0..MaxAttempts
        /\ (pc = "sampling" /\ attempt >= 1) => ~Valid(cand)
        /\ pc = "sampled" =>
                /\ desc # None
                /\ attempt < MaxAttempts =>
                        /\ Valid(cand)
                        /\ desc.crop_width = cand[1] /\ desc.crop_height = cand[2]
                /\ attempt = MaxAttempts =>
                        (~Valid(cand) /\ desc = Fallback(strategy, rows_, cols_))

\* C10: RandomResizedCrop sampling always terminates: a call that has started
\* returns a descriptor (or raises), after at most 10 candidates, with the
\* first valid candidate, and with the fallback after exactly 10 rejections.
C10_Terminates ==
    /\ []C10_Safety
    /\ [][(pc = "sampling" /\ pc' = "sampling") => attempt' = attempt + 1]_vars
    /\ (pc = "sampling") ~> (pc \in {"sampled", "error"})

C10_Witness ==
    /\ RrcReturned
    /\ attempt \in 1..(MaxAttempts - 1)
    /\ Valid(cand)

C10_WitnessFallback ==
    /\ RrcReturned
    /\ attempt = MaxAttempts

\* C20: when every side's requested crop is at most the frame dimension on its
\* axis, the crop rectangle has 0 <= x_min < x_max <= cols and 0 <= y_min <
\* y_max <= rows, and no side is cropped by more than was requested.
C20_CropWithinFrameWhenSidesFit ==
    (CapSampled /\ ReqCrop[1] <= rows_ /\ ReqCrop[3] <= rows_
                /\ ReqCrop[2] <= cols_ /\ ReqCrop[4] <= cols_) =>
        /\ 0 <= CropRect[1] /\ CropRect[1] < CropRect[3] /\ CropRect[3] <= cols_
        /\ 0 <= CropRect[2] /\ CropRect[2] < CropRect[4] /\ CropRect[4] <= rows_
        /\ \A i \in 1..4 : CropAmounts[i] <= ReqCrop[i]

\* Both sides of the height ask for the whole frame, and the width is rebalanced
\* with a side that cannot give back its half.
C20_Witness ==
    /\ CapSampled
    /\ ReqCrop[1] = rows_ /\ ReqCrop[3] = rows_
    /\ rows_ >= 2
    /\ regain.h # None
    /\ CropRect[4] - CropRect[2] >= 1

C20_WitnessPercent ==
    /\ CapSampled
    /\ ~IsNone(strategy.percent)
    /\ regain.w # None
    /\ ReqCrop[2] < cols_ /\ ReqCrop[4] < cols_ /\ ReqCrop[2] + ReqCrop[4] >= cols_

(***************************************************************************)
(* RandomCropFromBorders: the sampled rectangle.                           *)
(***************************************************************************)
RcfbCalled == strategy.kind = "RandomCropFromBorders" /\ pc \in {"sampled", "error"}

\* Every border fraction is in [0, 1).
RcfbInDomain ==
    /\ strategy.crop_left \in 0..(FracDen - 1) /\ strategy.crop_right \in 0..(FracDen - 1)
    /\ strategy.crop_top \in 0..(FracDen - 1) /\ strategy.crop_bottom \in 0..(FracDen - 1)

\* C11: with the four border fractions in [0, 1), no draw of the sample finds an
\* empty range (the call does not raise), and the rectangle has
\* 0 <= x_min < x_max <= cols and 0 <= y_min < y_max <= rows.
C11_BordersRectangleValid ==
    (RcfbCalled /\ RcfbInDomain) =>
        /\ pc = "sampled"
        /\ 0 <= desc.x_min /\ desc.x_min < desc.x_max /\ desc.x_max <= cols_
        /\ 0 <= desc.y_min /\ desc.y_min < desc.y_max /\ desc.y_max <= rows_

\* The largest x_min the left fraction allows, and x_max right behind it although
\* (1 - crop_right) * cols lies below.
C11_Witness ==
    /\ RcfbCalled /\ RcfbInDomain /\ pc = "sampled"
    /\ strategy.crop_left = FracDen - 1 /\ strategy.crop_right = FracDen - 1
    /\ cols_ = MaxDim
    /\ desc.x_min = PyInt((FracDen - 1) * cols_, FracDen)
    /\ desc.x_max = desc.x_min + 1
    /\ desc.x_min > PyInt(cols_, FracDen)

(***************************************************************************)
(* CropNonEmptyMaskIfExists: the sampled rectangle.                        *)
(***************************************************************************)
CnemCalled == strategy.kind = "CropNonEmptyMaskIfExists" /\ pc \in {"sampled", "error"}

\* A mask (or a non-empty list of masks) is given and the crop fits into it.
CnemFits ==
    /\ \/ targets.key = "mask"
       \/ targets.key = "masks" /\ Len(targets.masks) > 0
    /\ strategy.height <= rows_ /\ strategy.width <= cols_

\* The mask has a foreground pixel once the ignored values and channels are removed.
CnemHasForeground == CnemFits /\ MaskAny(CNEM_mask(strategy, targets).mask)

\* C12: when the crop fits into the mask and the mask has a foreground pixel
\* after ignore_values / ignore_channels, the rectangle is width x height, lies
\* inside the mask, and contains the foreground pixel <<y, x>> that was picked.
C12_CropContainsForegroundPixel ==
    (CnemCalled /\ CnemHasForeground) =>
        /\ pc = "sampled"
        /\ draw # None
        /\ <<draw.y, draw.x>> \in non_zero_yx(CNEM_mask(strategy, targets).mask)
        /\ desc.x_max - desc.x_min = strategy.width
        /\ desc.y_max - desc.y_min = strategy.height
        /\ 0 <= desc.x_min /\ desc.x_max <= cols_
        /\ 0 <= desc.y_min /\ desc.y_max <= rows_
        /\ desc.x_min <= draw.x /\ draw.x < desc.x_max
        /\ desc.y_min <= draw.y /\ draw.y < desc.y_max

\* The jitter moved the crop off the pixel's column and the clamp did not act.
C12_Witness ==
    /\ CnemCalled /\ CnemHasForeground /\ pc = "sampled"
    /\ strategy.width = 2 /\ cols_ = 3
    /\ draw.x = 1 /\ desc.x_min = 0 /\ desc.x_max = 2

\* The clamp pulled the crop back into the mask on the far side.
C12_WitnessClamped ==
    /\ CnemCalled /\ CnemHasForeground /\ pc = "sampled"
    /\ strategy.width = 2 /\ cols_ = 3
    /\ draw.x = 2 /\ desc.x_min = 1
    /\ targets.key = "masks"

\* A 3-D mask whose only foreground survives in the channel that is kept.
C12_WitnessChannels ==
    /\ CnemCalled /\ CnemHasForeground /\ pc = "sampled"
    /\ targets.key = "mask" /\ Len(targets.mask.shape) = 3
    /\ strategy.ignore_channels.kind = "list"
    /\ strategy.ignore_values.kind = "list"

\* C13: when the crop is higher or wider than the mask, or when neither a mask
\* nor a non-empty list of masks is given, the call raises and returns no
\* rectangle.
C13_MaskErrorsRaise ==
    (CnemCalled /\ ~CnemFits) =>
        /\ pc = "error"
        /\ err # ""
        /\ desc = None

\* A mask with foreground that is narrower than the crop.
C13_Witness ==
    /\ CnemCalled /\ pc = "error"
    /\ targets.key = "mask" /\ strategy.width > cols_ /\ strategy.height <= rows_
    /\ \E p \in DOMAIN targets.mask.at : targets.mask.at[p] = 2

\* An empty list of masks.
C13_WitnessNoMask ==
    /\ CnemCalled /\ pc = "error"
    /\ targets.key = "masks" /\ targets.masks = <<>>
    /\ strategy.width <= cols_ /\ strategy.height <= rows_

(***************************************************************************)
(* RandomCrop: the window that is cut out.                                 *)
(***************************************************************************)
RcApplied == strategy.kind = "RandomCrop" /\ pc \in {"applied", "error"}

\* C15: when the crop fits into the frame, the window of every pair of draws
\* has 0 <= x_min, x_min + width <= cols, 0 <= y_min, y_min + height <= rows,
\* and its offsets are the draws scaled by (cols - width) and (rows - height).
C15_RandomCropInsideFrame ==
    (RcApplied /\ strategy.height <= rows_ /\ strategy.width <= cols_) =>
        /\ pc = "applied"
        /\ 0 <= applied.crop[1] /\ applied.crop[1] + strategy.width <= cols_
        /\ 0 <= applied.crop[2] /\ applied.crop[2] + strategy.height <= rows_
        /\ applied.crop[3] = applied.crop[1] + strategy.width
        /\ applied.crop[4] = applied.crop[2] + strategy.height
        /\ applied.crop[1] = (desc.w_start[1] * (cols_ - strategy.width)) \div RandDen
        /\ applied.crop[2] = (desc.h_start[1] * (rows_ - strategy.height)) \div RandDen

\* The largest draws on a frame with room on both axes, and a crop that is not
\* square.
C15_Witness ==
    /\ RcApplied /\ pc = "applied"
    /\ strategy.height = 1 /\ strategy.width = 2
    /\ rows_ = MaxDim /\ cols_ = MaxDim
    /\ desc.h_start[1] = RandDen - 1 /\ desc.w_start[1] = RandDen - 1
    /\ applied.crop[2] >= 1

\* The documented example scaled to the model: a 10 x 10 frame.
C15_WitnessLarge ==
    /\ RcApplied /\ pc = "applied"
    /\ frame = <<10, 10>>
    /\ desc.h_start[1] = RandDen - 1
    /\ applied.crop[2] > MaxDim

(***************************************************************************)
(* CropAndPad: no state is carried from one sampling call to the next.     *)
(***************************************************************************)
\* The strategy as the constructor left it.
AsConstructed ==
    CropAndPad_init(ctor_args.px, ctor_args.percent, strategy.sample_independently).self

C16_WitnessDraws ==
    /\ CapSampled
    /\ calls = MaxCalls /\ calls >= 2
    /\ strategy.percent.kind = "four_pair"

(***************************************************************************)
(* Crop-then-resize: the keypoint follows the image.                       *)
(***************************************************************************)
RszApplied ==
    strategy.kind \in {"RandomSizedCrop", "RandomResizedCrop"} /\ pc = "applied"

\* The fractions a and b are the same number.
RatEq(a, b) == a[1] * b[2] = b[1] * a[2]

\* The window of the descriptor in the frame.
DescWindow ==
    get_random_crop_coords(rows_, cols_, desc.crop_height, desc.crop_width,
                           desc.h_start, desc.w_start)

\* C17: the keypoint is first moved by the origin of the window that
\* (crop_height, crop_width, h_start, w_start) give, then scaled by
\* width / crop_width and height / crop_height; the image is cut with the same
\* window and resized to (height, width).
C17_KeypointTranslatedThenScaled ==
    RszApplied =>
        /\ applied.crop = DescWindow
        /\ applied.size = <<strategy.height, strategy.width>>
        /\ RatEq(applied.keypoint[1],
                 <<(targets.keypoint[1] - DescWindow[1]) * strategy.width, desc.crop_width>>)
        /\ RatEq(applied.keypoint[2],
                 <<(targets.keypoint[2] - DescWindow[2]) * strategy.height, desc.crop_height>>)

\* The window does not start at the origin and the crop is resized, so that the
\* two orders give different keypoints.
C17_Witness ==
    /\ RszApplied
    /\ strategy.kind = "RandomSizedCrop"
    /\ DescWindow[1] > 0 /\ DescWindow[2] > 0
    /\ desc.crop_width # strategy.width /\ desc.crop_height # strategy.height
    /\ targets.keypoint[1] > 0 /\ targets.keypoint[2] > 0

C17_WitnessResized ==
    /\ RszApplied
    /\ strategy.kind = "RandomResizedCrop"
    /\ DescWindow[1] > 0
    /\ desc.crop_width # strategy.width
    /\ targets.keypoint[1] > 0

(***************************************************************************)
(* RandomResizedCrop: the size of the window.                              *)
(***************************************************************************)
\* The ratio range is 0 < min <= max.
RrcRatioInDomain ==
    /\ strategy.kind = "RandomResizedCrop"
    /\ 0 < strategy.ratio[1] /\ strategy.ratio[1] <= strategy.ratio[2]

\* A start fraction i / (extent - size) with 0 <= i <= extent - size.
StartInUnit(start) == 0 <= start[1] /\ start[1] <= start[2]

\* C18: for a ratio range 0 < min <= max every descriptor of RandomResizedCrop,
\* from an accepted attempt or from the fallback, has 1 <= crop_width <= cols,
\* 1 <= crop_height <= rows and start fractions in [0, 1], so that
\* apply_to_keypoint never divides by zero.
C18_ResizedCropWindowInFrame ==
    RrcRatioInDomain =>
        /\ err # "ZeroDivisionError: division by zero"
        /\ desc # None =>
             /\ 1 <= desc.crop_width /\ desc.crop_width <= cols_
             /\ 1 <= desc.crop_height /\ desc.crop_height <= rows_
             /\ StartInUnit(desc.h_start) /\ StartInUnit(desc.w_start)

(***************************************************************************)
(* RandomCropNearBBox: the sampled rectangle.                              *)
(***************************************************************************)
NearBBoxSampled == strategy.kind = "RandomCropNearBBox" /\ pc = "sampled"

\* C19: for max_part_shift in [0, 1] on both axes and a reference rectangle with
\* 0 <= x_min < x_max and 0 <= y_min < y_max, every sampled rectangle has
\* x_min < x_max, y_min < y_max, x_min >= 0 and y_min >= 0.
C19_NearBBoxRectangleValid ==
    NearBBoxSampled =>
        /\ desc.x_min < desc.x_max
        /\ desc.y_min < desc.y_max
        /\ desc.x_min >= 0
        /\ desc.y_min >= 0

(***************************************************************************)
(* BBoxSafeRandomCrop: the window and the boxes.                           *)
(***************************************************************************)
BbsApplied == strategy.kind = "BBoxSafeRandomCrop" /\ pc = "applied"

\* The eroded union of the boxes of the call, numerators over UnionDen.
BbsUnion == union_of_bboxes(cols_, rows_, targets.bboxes, strategy.erosion_rate)

\* C14: for a non-empty list of boxes (and erosion_rate in [0, 1)) the window
\* that (h_start, w_start, crop_height, crop_width) cut out contains the eroded
\* union <<x, y, x2, y2>> of the boxes: left <= x, top <= y, right >= x2 and
\* bottom >= y2 in normalized coordinates.
C14_CropContainsBoxUnion ==
    (BbsApplied /\ Len(targets.bboxes) > 0 /\ strategy.erosion_rate \in 0..(FracDen - 1)) =>
        /\ applied.crop[1] * UnionDen <= BbsUnion[1] * cols_
        /\ applied.crop[2] * UnionDen <= BbsUnion[2] * rows_
        /\ applied.crop[3] * UnionDen >= BbsUnion[3] * cols_
        /\ applied.crop[4] * UnionDen >= BbsUnion[4] * rows_

(***************************************************************************)
(* BBoxSafeRandomCrop: the size of the window.                             *)
(***************************************************************************)
BbsReturned ==
    strategy.kind = "BBoxSafeRandomCrop" /\ pc \in {"sampled", "applied"} /\ desc # None

\* C21: for erosion_rate in [0, 1) every descriptor of BBoxSafeRandomCrop has
\* 1 <= crop_height <= rows, 1 <= crop_width <= cols and h_start, w_start in
\* [0, 1]; without boxes crop_height is at least rows * (1 - erosion_rate) and
\* crop_width is int(crop_height * cols / rows).
C21_BBoxSafeWindowInFrame ==
    (BbsReturned /\ strategy.erosion_rate \in 0..(FracDen - 1)) =>
        /\ 1 <= desc.crop_height /\ desc.crop_height <= rows_
        /\ 1 <= desc.crop_width /\ desc.crop_width <= cols_
        /\ StartInUnit(desc.h_start) /\ StartInUnit(desc.w_start)
        /\ Len(targets.bboxes) = 0 =>
             /\ desc.crop_height * FracDen >= rows_ * (FracDen - strategy.erosion_rate)
             /\ desc.crop_width = PyInt(desc.crop_height * cols_, rows_)

====
